---- MODULE Spec2Model ----
(***************************************************************************)
(* Model of vislab/dataset.py: get_train_test_split, get_bool_df and       *)
(* fetch_image_filenames_for_ids (Python 2, numpy, pandas, requests).      *)
(*                                                                         *)
(* Four specifications share the module:                                   *)
(*   SpecSplit  get_train_test_split, one step per statement group         *)
(*   SpecBool   get_bool_df, filter step and one step per expanded value   *)
(*   SpecFetch  fetch_image_filenames_for_ids called repeatedly by one     *)
(*              process, one step per loop iteration                       *)
(*   SpecRace   fetch_image_filenames_for_ids run by several processes on  *)
(*              one cache, one step per system call                        *)
(***************************************************************************)
EXTENDS Integers, Sequences, FiniteSets, TLC

VARIABLES
    \* ---- get_train_test_split
    s_pc, N, df_, test_frac, index, test_balanced_set, remaining_ind,
    num_test, num_to_add, split,
    \* ---- get_bool_df
    b_pc, df, column_name, min_positive_examples, vals, b_index, bool_df,
    done_vals,
    \* ---- fetch_image_filenames_for_ids, one process
    f_pc, disk, dataset_name, image_ids, k, good_filenames, log, net,
    \* ---- fetch_image_filenames_for_ids, concurrent processes
    c_pc, c_ids, c_k, c_good, c_body, opens, early_hits

splitVars == <<s_pc, N, df_, test_frac, index, test_balanced_set,
               remaining_ind, num_test, num_to_add, split>>
boolVars  == <<b_pc, df, column_name, min_positive_examples, vals, b_index,
               bool_df, done_vals>>
fetchVars == <<f_pc, dataset_name, image_ids, k, good_filenames, log, net>>
raceVars  == <<c_pc, c_ids, c_k, c_good, c_body, opens, early_hits>>
vars == <<splitVars, boolVars, fetchVars, raceVars, disk>>

\* What the steps of one function leave alone.
otherThanSplit == <<boolVars, fetchVars, raceVars, disk>>
otherThanBool  == <<splitVars, fetchVars, raceVars, disk>>
otherThanFetch == <<splitVars, boolVars, raceVars>>
otherThanRace  == <<splitVars, boolVars, fetchVars>>

(***************************************************************************)
(* Bounds                                                                  *)
(***************************************************************************)
MaxN == 4          \* rows of the boolean label table
MaxCols == 2       \* columns of the boolean label table
MaxRows == 3       \* rows of the data frame given to get_bool_df
MaxMinPos == 2     \* largest min_positive_examples tried
NumIds == 2        \* image identifiers of the dataset
MaxIds == 2        \* length of the image_ids list of one call
NumProcs == 2      \* processes sharing the cache
MaxRaceIds == 2    \* length of the image_ids list of a racing process

(***************************************************************************)
(* Helpers                                                                 *)
(***************************************************************************)
Range(s) == {s[j] : j \in DOMAIN s}

Min(a, b) == IF a < b THEN a ELSE b

Last(s) == s[Len(s)]

\* All orderings of a finite set, as sequences without repetition.
Perms(S) ==
    {s \in [1..Cardinality(S) -> S] : \A a, b \in DOMAIN s : a # b => s[a] # s[b]}

SetMin(S) == CHOOSE m \in S : \A x \in S : m <= x

(***************************************************************************)
(* get_train_test_split                                                    *)
(***************************************************************************)
\* Test fractions as exact rationals <<numerator, denominator>>.
Fracs == {<<0, 1>>, <<1, 5>>, <<1, 2>>, <<3, 4>>, <<1, 1>>}

\* int(round(n * test_frac)): Python 2 rounds halves away from zero.
RoundFrac(n, frac) == (2 * n * frac[1] + frac[2]) \div (2 * frac[2])

Rows == 1..N
Cols == DOMAIN df_

\* df_.sum(0): number of true rows per column.
counts == [l \in Cols |-> Cardinality(df_[l])]

\* int(round(counts[counts.argmin()] * test_frac))
min_count == RoundFrac(SetMin({counts[l] : l \in Cols}), test_frac)

\* df_.index[np.where(df_[l])[0][:min_count]]
FirstTrue(l, m) ==
    LET t == SelectSeq(index, LAMBDA r : r \in df_[l])
    IN  SubSeq(t, 1, Min(m, Len(t)))

\* np.concatenate([... for l, count in counts.iteritems()]).tolist()
RECURSIVE ConcatCols(_, _)
ConcatCols(c, m) ==
    IF c = 0 THEN <<>> ELSE ConcatCols(c - 1, m) \o FirstTrue(c, m)

InitSplitVars ==
    /\ s_pc = "start"
    /\ N \in 1..MaxN
    /\ \E nc \in 1..MaxCols : df_ \in [1..nc -> SUBSET (1..N)]
    /\ test_frac \in Fracs
    /\ index = [j \in 1..N |-> j]
    /\ test_balanced_set = <<>>
    /\ remaining_ind = <<>>
    /\ num_test = 0
    /\ num_to_add = 0
    /\ split = <<>>

IdleSplitVars ==
    /\ s_pc = "idle"
    /\ N = 0
    /\ df_ = <<>>
    /\ test_frac = <<0, 1>>
    /\ index = <<>>
    /\ test_balanced_set = <<>>
    /\ remaining_ind = <<>>
    /\ num_test = 0
    /\ num_to_add = 0
    /\ split = <<>>

\* np.random.seed; df_ = df_.iloc[np.random.permutation(N)]
Permute ==
    /\ s_pc = "start"
    /\ index' \in Perms(Rows)
    /\ s_pc' = "balance"
    /\ UNCHANGED <<N, df_, test_frac, test_balanced_set, remaining_ind,
                   num_test, num_to_add, split>>
    /\ UNCHANGED otherThanSplit

\* counts, min_count, test_balanced_set
Balance ==
    /\ s_pc = "balance"
    /\ test_balanced_set' = ConcatCols(Cardinality(Cols), min_count)
    /\ s_pc' = "remaining"
    /\ UNCHANGED <<N, df_, test_frac, index, remaining_ind, num_test,
                   num_to_add, split>>
    /\ UNCHANGED otherThanSplit

\* remaining_ind = index.diff(test_balanced_set), shuffled; num_test;
\* num_to_add counts the list with its repetitions.
Remaining ==
    /\ s_pc = "remaining"
    /\ remaining_ind' \in Perms(Rows \ Range(test_balanced_set))
    /\ num_test' = RoundFrac(N, test_frac)
    /\ num_to_add' = RoundFrac(N, test_frac) - Len(test_balanced_set)
    /\ s_pc' = "branch"
    /\ UNCHANGED <<N, df_, test_frac, index, test_balanced_set, split>>
    /\ UNCHANGED otherThanSplit

\* if num_to_add > 0: test_balanced_set += remaining_ind[:num_to_add]
AddFromRemaining ==
    /\ s_pc = "branch"
    /\ num_to_add > 0
    /\ test_balanced_set' = test_balanced_set \o
           SubSeq(remaining_ind, 1, Min(num_to_add, Len(remaining_ind)))
    /\ s_pc' = "assign"
    /\ UNCHANGED <<N, df_, test_frac, index, remaining_ind, num_test,
                   num_to_add, split>>
    /\ UNCHANGED otherThanSplit

\* else: np.random.choice(test_balanced_set, num_test, replace=False)
\* on a non-empty list: num_test distinct positions, in random order.
Redraw ==
    /\ s_pc = "branch"
    /\ num_to_add <= 0
    /\ Len(test_balanced_set) > 0
    /\ \E pos \in [1..num_test -> 1..Len(test_balanced_set)] :
          /\ \A a, b \in 1..num_test : a # b => pos[a] # pos[b]
          /\ test_balanced_set' = [j \in 1..num_test |-> test_balanced_set[pos[j]]]
    /\ s_pc' = "assign"
    /\ UNCHANGED <<N, df_, test_frac, index, remaining_ind, num_test,
                   num_to_add, split>>
    /\ UNCHANGED otherThanSplit

\* else-branch on an empty list (num_test = 0): np.random.choice of the
\* numpy releases this code was written for raises
\* ValueError("a must be non-empty") for an empty population ...
RedrawEmptyRaises ==
    /\ s_pc = "branch"
    /\ num_to_add <= 0
    /\ Len(test_balanced_set) = 0
    /\ s_pc' = "raised"
    /\ UNCHANGED <<N, df_, test_frac, index, test_balanced_set,
                   remaining_ind, num_test, num_to_add, split>>
    /\ UNCHANGED otherThanSplit

\* ... and later numpy releases accept an empty population when no samples
\* are taken and return an empty sample.
RedrawEmptyReturns ==
    /\ s_pc = "branch"
    /\ num_to_add <= 0
    /\ Len(test_balanced_set) = 0
    /\ test_balanced_set' = <<>>
    /\ s_pc' = "assign"
    /\ UNCHANGED <<N, df_, test_frac, index, remaining_ind, num_test,
                   num_to_add, split>>
    /\ UNCHANGED otherThanSplit

\* split = Series('train', index); split.ix[test_balanced_set] = 'test'
Assign ==
    /\ s_pc = "assign"
    /\ split' = [r \in Rows |->
                   IF r \in Range(test_balanced_set) THEN "test" ELSE "train"]
    /\ s_pc' = "done"
    /\ UNCHANGED <<N, df_, test_frac, index, test_balanced_set,
                   remaining_ind, num_test, num_to_add>>
    /\ UNCHANGED otherThanSplit


(***************************************************************************)
(* get_bool_df                                                             *)
(***************************************************************************)
\* Unicode values are sequences of characters; NONASCII stands for any
\* character outside ASCII.  NA is the missing value (NaN), which is no
\* sequence of characters.
NONASCII == "U+00E9"
NA == <<"NaN">>

\* The values tried: "", " ", "_", one non-ASCII character, "a b", "a_b".
Values == {<<>>, <<" ">>, <<"_">>, <<NONASCII>>,
           <<"a", " ", "b">>, <<"a", "_", "b">>}
ColumnNames == {<<>>, <<"g">>}

\* val.replace(' ', '_')
ReplaceSpaces(val) == [j \in DOMAIN val |-> IF val[j] = " " THEN "_" ELSE val[j]]

\* .encode('ascii', 'ignore')
EncodeAsciiIgnore(val) == SelectSeq(val, LAMBDA c : c # NONASCII)

\* ascii_name, with the column name prefixed when it is not empty
AsciiName(cname, val) ==
    LET ascii_name == EncodeAsciiIgnore(ReplaceSpaces(val))
    IN  IF Len(cname) > 0
        THEN cname \o <<"_">> \o ascii_name
        ELSE ascii_name

\* df.dropna(subset=[column_name]): rows whose value is not missing
DropNa(col) == {r \in DOMAIN col : col[r] # NA}

\* df[column_name].value_counts(): frequency of each distinct value
ValueCounts(col) ==
    [v \in {col[r] : r \in DropNa(col)} |->
        Cardinality({r \in DropNa(col) : col[r] = v})]

\* Variant: the filter keeps only values with more examples than the
\* minimum (freqs > min_positive_examples), as the docstring words it.
FilterFreqs_strict(freqs, minpos) ==
    IF minpos > 0
    THEN {v \in DOMAIN freqs : freqs[v] > minpos}
    ELSE DOMAIN freqs

\* freqs[freqs >= min_positive_examples] when min_positive_examples > 0
FilterFreqs(freqs, minpos) ==
    IF minpos > 0
    THEN {v \in DOMAIN freqs : freqs[v] >= minpos}
    ELSE DOMAIN freqs

\* value_counts sorts by descending frequency; equal frequencies come in
\* an order the caller does not control.
Descending(s, freqs) ==
    \A a, b \in DOMAIN s : a < b => freqs[s[a]] >= freqs[s[b]]

InitBoolVars ==
    /\ b_pc = "start"
    /\ \E n \in 1..MaxRows : df \in [1..n -> Values \cup {NA}]
    /\ column_name \in ColumnNames
    /\ min_positive_examples \in (-1)..MaxMinPos
    /\ vals = <<>>
    /\ b_index = {}
    /\ bool_df = <<>>
    /\ done_vals = 0

IdleBoolVars ==
    /\ b_pc = "idle"
    /\ df = <<>>
    /\ column_name = <<>>
    /\ min_positive_examples = -1
    /\ vals = <<>>
    /\ b_index = {}
    /\ bool_df = <<>>
    /\ done_vals = 0

\* dropna, value_counts, the frequency filter, vals, the row filter and the
\* empty bool_df
Filter ==
    /\ b_pc = "start"
    /\ LET freqs == ValueCounts(df)
           kept == FilterFreqs(freqs, min_positive_examples)
       IN  /\ vals' \in {s \in Perms(kept) : Descending(s, freqs)}
           /\ b_index' = {r \in DropNa(df) : df[r] \in kept}
    /\ bool_df' = <<>>
    /\ done_vals' = 0
    /\ b_pc' = "expand"
    /\ UNCHANGED <<df, column_name, min_positive_examples>>
    /\ UNCHANGED otherThanBool

\* one pass of "for val in vals": bool_df[ascii_name] = (df[column_name] == val)
Expand ==
    /\ b_pc = "expand"
    /\ done_vals < Len(vals)
    /\ LET val == vals[done_vals + 1]
           ascii_name == AsciiName(column_name, val)
       IN  bool_df' = [n \in DOMAIN bool_df \cup {ascii_name} |->
                         IF n = ascii_name
                         THEN {r \in b_index : df[r] = val}
                         ELSE bool_df[n]]
    /\ done_vals' = done_vals + 1
    /\ UNCHANGED <<b_pc, df, column_name, min_positive_examples, vals, b_index>>
    /\ UNCHANGED otherThanBool

ReturnBoolDf ==
    /\ b_pc = "expand"
    /\ done_vals = Len(vals)
    /\ b_pc' = "done"
    /\ UNCHANGED <<df, column_name, min_positive_examples, vals, b_index,
                   bool_df, done_vals>>
    /\ UNCHANGED otherThanBool


(***************************************************************************)
(* fetch_image_filenames_for_ids: the cache and the datasets               *)
(***************************************************************************)
Ids == 1..NumIds
Bodies == {"v1", "v2"}

\* vislab.datasets.DATASETS with the columns of the data frame each loader
\* returns; "unknown" is a name that is not registered.
DATASETS == [urlset |-> {"image_url"}, fileset |-> {"image_filename"}]
DatasetNames == {"urlset", "fileset", "unknown"}

\* '{}/{}/{}.jpg'.format(vislab.config['images'], dataset_name, image_id)
CachePath(name, image_id) == <<"images", name, image_id, ".jpg">>

\* df['image_filename'].loc[image_id]
LocalPath(image_id) == <<"local", image_id>>

CachePaths == {CachePath("urlset", i) : i \in Ids}
LocalPaths == {LocalPath(i) : i \in Ids}

\* What a path holds: nothing, a file just created or truncated by
\* open(filename, 'wb') and still open, a file whose write stopped early
\* (with no or some of the bytes), a whole response body, or the bytes of two
\* writers on top of each other.
Contents == {"absent", "empty", "partial", "mixed"} \cup Bodies

\* Variant: the existence check is missing, every path counts as absent.
os_path_exists_never(d, filename) == FALSE

os_path_exists(d, filename) == d[filename] # "absent"

IdSeqs(maxlen) == UNION {[1..n -> Ids] : n \in 0..maxlen}

\* At the start every file there is holds a whole body.  The cache and the
\* files of the image_filename column are varied one at a time.
InitDisk ==
    /\ disk \in [CachePaths \cup LocalPaths -> {"absent", "v1"}]
    /\ \/ \A f \in LocalPaths : disk[f] = "absent"
       \/ \A f \in CachePaths : disk[f] = "absent"

IdleDisk ==
    disk = [f \in CachePaths \cup LocalPaths |-> "absent"]

\* The racing processes all ask for identifier 1; its file is there or not.
RaceId == 1

InitRaceDisk ==
    /\ InitDisk
    /\ \A f \in DOMAIN disk : f # CachePath("urlset", RaceId) => disk[f] = "absent"

(***************************************************************************)
(* fetch_image_filenames_for_ids, calls of one process                     *)
(***************************************************************************)
InitFetchVars ==
    /\ f_pc = "idle"
    /\ dataset_name = "none"
    /\ image_ids = <<>>
    /\ k = 0
    /\ good_filenames = <<>>
    /\ log = <<>>
    /\ net = <<>>

IdleFetchVars == InitFetchVars

Callable == f_pc \in {"idle", "done", "raised"}

\* load_dataset_df raises Exception('Unknown dataset.')
CallUnknownDataset ==
    /\ Callable
    /\ \E name \in DatasetNames \ DOMAIN DATASETS, ids \in IdSeqs(MaxIds) :
          /\ dataset_name' = name
          /\ image_ids' = ids
    /\ f_pc' = "raised"
    /\ k' = 0
    /\ good_filenames' = <<>>
    /\ log' = <<>>
    /\ net' = <<>>
    /\ UNCHANGED disk
    /\ UNCHANGED otherThanFetch

\* 'image_filename' in df.columns: filenames is set, urls is not, and
\* zip(filenames, urls) raises UnboundLocalError before the loop starts.
CallWithFilenameColumn ==
    /\ Callable
    /\ \E name \in DOMAIN DATASETS, ids \in IdSeqs(MaxIds) :
          /\ "image_filename" \in DATASETS[name]
          /\ dataset_name' = name
          /\ image_ids' = ids
    /\ f_pc' = "raised"
    /\ k' = 0
    /\ good_filenames' = <<>>
    /\ log' = <<>>
    /\ net' = <<>>
    /\ UNCHANGED disk
    /\ UNCHANGED otherThanFetch

\* else-branch: filenames are the cache paths, urls the url column;
\* good_filenames = []
CallWithUrlColumn ==
    /\ Callable
    /\ \E name \in DOMAIN DATASETS, ids \in IdSeqs(MaxIds) :
          /\ "image_filename" \notin DATASETS[name]
          /\ "image_url" \in DATASETS[name]
          /\ dataset_name' = name
          /\ image_ids' = ids
    /\ f_pc' = "loop"
    /\ k' = 1
    /\ good_filenames' = <<>>
    /\ log' = <<>>
    /\ net' = <<>>
    /\ UNCHANGED disk
    /\ UNCHANGED otherThanFetch

InLoop == f_pc = "loop" /\ k <= Len(image_ids)

filename == CachePath(dataset_name, image_ids[k])

\* Variant: a hit that requests the url all the same.
IterHit_refetch ==
    /\ InLoop
    /\ os_path_exists(disk, filename)
    /\ good_filenames' = Append(good_filenames, filename)
    /\ log' = Append(log, "hit")
    /\ \E body \in Bodies : net' = Append(net, <<image_ids[k], body>>)
    /\ k' = k + 1
    /\ UNCHANGED <<f_pc, dataset_name, image_ids, disk>>
    /\ UNCHANGED otherThanFetch

\* if os.path.exists(filename): good_filenames.append(filename); continue
IterHit ==
    /\ InLoop
    /\ os_path_exists(disk, filename)
    /\ good_filenames' = Append(good_filenames, filename)
    /\ log' = Append(log, "hit")
    /\ k' = k + 1
    /\ UNCHANGED <<f_pc, dataset_name, image_ids, net, disk>>
    /\ UNCHANGED otherThanFetch

\* Variant: no except clause, the error of requests.get ends the call.
IterFetchRaises_abort ==
    /\ InLoop
    /\ ~os_path_exists(disk, filename)
    /\ net' = Append(net, <<image_ids[k], "raised">>)
    /\ log' = Append(log, "fetch_raised")
    /\ f_pc' = "raised"
    /\ UNCHANGED <<k, dataset_name, image_ids, good_filenames, disk>>
    /\ UNCHANGED otherThanFetch

\* requests.get(url) raises; the except clause prints and the loop goes on
IterFetchRaises ==
    /\ InLoop
    /\ ~os_path_exists(disk, filename)
    /\ net' = Append(net, <<image_ids[k], "raised">>)
    /\ log' = Append(log, "fetch_raised")
    /\ k' = k + 1
    /\ UNCHANGED <<f_pc, dataset_name, image_ids, good_filenames, disk>>
    /\ UNCHANGED otherThanFetch

\* open(filename, 'wb') raises: no file is created
IterOpenRaises ==
    /\ InLoop
    /\ ~os_path_exists(disk, filename)
    /\ net' = Append(net, <<image_ids[k], "unused">>)
    /\ log' = Append(log, "open_raised")
    /\ k' = k + 1
    /\ UNCHANGED <<f_pc, dataset_name, image_ids, good_filenames, disk>>
    /\ UNCHANGED otherThanFetch

\* open creates the file, f.write raises: the file stays, cut short
IterWriteRaises ==
    /\ InLoop
    /\ ~os_path_exists(disk, filename)
    /\ net' = Append(net, <<image_ids[k], "unused">>)
    /\ disk' = [disk EXCEPT ![filename] = "partial"]
    /\ log' = Append(log, "write_raised")
    /\ k' = k + 1
    /\ UNCHANGED <<f_pc, dataset_name, image_ids, good_filenames>>
    /\ UNCHANGED otherThanFetch

\* fetch, open and write succeed: the body is in the file, the path in the
\* result.  (The print before the request names image_id, which Python 2
\* leaves bound by the list comprehension whenever the loop has a pass to
\* make, so the print does not raise.)
IterOk ==
    /\ InLoop
    /\ ~os_path_exists(disk, filename)
    /\ \E body \in Bodies :
          /\ net' = Append(net, <<image_ids[k], body>>)
          /\ disk' = [disk EXCEPT ![filename] = body]
    /\ good_filenames' = Append(good_filenames, filename)
    /\ log' = Append(log, "ok")
    /\ k' = k + 1
    /\ UNCHANGED <<f_pc, dataset_name, image_ids>>
    /\ UNCHANGED otherThanFetch

\* return good_filenames
Return ==
    /\ f_pc = "loop"
    /\ k > Len(image_ids)
    /\ f_pc' = "done"
    /\ UNCHANGED <<dataset_name, image_ids, k, good_filenames, log, net, disk>>
    /\ UNCHANGED otherThanFetch


(***************************************************************************)
(* fetch_image_filenames_for_ids, several processes on one cache.  Every   *)
(* process makes one call on the url dataset; a step is one system call:   *)
(* the existence check, the request, the open, the write.                  *)
(***************************************************************************)
Procs == 1..NumProcs

RaceIdSeqs == UNION {[1..n -> {RaceId}] : n \in 1..MaxRaceIds}

InitRaceVars ==
    /\ c_pc = [p \in Procs |-> "check"]
    /\ c_ids \in [Procs -> RaceIdSeqs]
    /\ c_k = [p \in Procs |-> 1]
    /\ c_good = [p \in Procs |-> <<>>]
    /\ c_body = [p \in Procs |-> "none"]
    /\ opens = [p \in Procs |-> [f \in CachePaths |-> 0]]
    /\ early_hits = {}

IdleRaceVars ==
    /\ c_pc = <<>>
    /\ c_ids = <<>>
    /\ c_k = <<>>
    /\ c_good = <<>>
    /\ c_body = <<>>
    /\ opens = <<>>
    /\ early_hits = {}

c_filename(p) == CachePath("urlset", c_ids[p][c_k[p]])

AtCheck(p) == c_pc[p] = "check" /\ c_k[p] <= Len(c_ids[p])

\* Another process has created filename and has not finished writing it.
BeingWritten(p, f) ==
    \E q \in Procs \ {p} : c_pc[q] = "write" /\ c_filename(q) = f

\* os.path.exists(filename) is true: the path is a hit
RaceHit(p) ==
    /\ AtCheck(p)
    /\ os_path_exists(disk, c_filename(p))
    /\ c_good' = [c_good EXCEPT ![p] = Append(@, c_filename(p))]
    /\ c_k' = [c_k EXCEPT ![p] = @ + 1]
    /\ early_hits' = IF BeingWritten(p, c_filename(p))
                     THEN early_hits \cup {<<p, c_filename(p)>>}
                     ELSE early_hits
    /\ UNCHANGED <<c_pc, c_ids, c_body, opens, disk>>
    /\ UNCHANGED otherThanRace

\* Variant: the request is made whether or not the file exists.
RaceMiss_unchecked(p) ==
    /\ AtCheck(p)
    /\ c_pc' = [c_pc EXCEPT ![p] = "get"]
    /\ UNCHANGED <<c_ids, c_k, c_good, c_body, opens, early_hits, disk>>
    /\ UNCHANGED otherThanRace

\* os.path.exists(filename) is false: go on to the request
RaceMiss(p) ==
    /\ AtCheck(p)
    /\ ~os_path_exists(disk, c_filename(p))
    /\ c_pc' = [c_pc EXCEPT ![p] = "get"]
    /\ UNCHANGED <<c_ids, c_k, c_good, c_body, opens, early_hits, disk>>
    /\ UNCHANGED otherThanRace

\* r = requests.get(url)
RaceGet(p) ==
    /\ c_pc[p] = "get"
    /\ \E body \in Bodies : c_body' = [c_body EXCEPT ![p] = body]
    /\ c_pc' = [c_pc EXCEPT ![p] = "open"]
    /\ UNCHANGED <<c_ids, c_k, c_good, opens, early_hits, disk>>
    /\ UNCHANGED otherThanRace

\* requests.get raises
RaceGetRaises(p) ==
    /\ c_pc[p] = "get"
    /\ c_pc' = [c_pc EXCEPT ![p] = "check"]
    /\ c_k' = [c_k EXCEPT ![p] = @ + 1]
    /\ UNCHANGED <<c_ids, c_good, c_body, opens, early_hits, disk>>
    /\ UNCHANGED otherThanRace

\* open(filename, 'wb') creates the file or truncates the one that is there
RaceOpen(p) ==
    /\ c_pc[p] = "open"
    /\ disk' = [disk EXCEPT ![c_filename(p)] = "empty"]
    /\ opens' = [opens EXCEPT ![p][c_filename(p)] = @ + 1]
    /\ c_pc' = [c_pc EXCEPT ![p] = "write"]
    /\ UNCHANGED <<c_ids, c_k, c_good, c_body, early_hits>>
    /\ UNCHANGED otherThanRace

\* open raises
RaceOpenRaises(p) ==
    /\ c_pc[p] = "open"
    /\ c_pc' = [c_pc EXCEPT ![p] = "check"]
    /\ c_k' = [c_k EXCEPT ![p] = @ + 1]
    /\ c_body' = [c_body EXCEPT ![p] = "none"]
    /\ UNCHANGED <<c_ids, c_good, opens, early_hits, disk>>
    /\ UNCHANGED otherThanRace

\* f.write(r.content) from offset 0; on top of what another writer put
\* there since this process's open, the file may hold bytes of both.
RaceWrite(p) ==
    /\ c_pc[p] = "write"
    /\ \E result \in IF disk[c_filename(p)] \in {"empty", c_body[p]}
                     THEN {c_body[p]}
                     ELSE {c_body[p], "mixed"} :
          disk' = [disk EXCEPT ![c_filename(p)] = result]
    /\ c_good' = [c_good EXCEPT ![p] = Append(@, c_filename(p))]
    /\ c_pc' = [c_pc EXCEPT ![p] = "check"]
    /\ c_k' = [c_k EXCEPT ![p] = @ + 1]
    /\ c_body' = [c_body EXCEPT ![p] = "none"]
    /\ UNCHANGED <<c_ids, opens, early_hits>>
    /\ UNCHANGED otherThanRace

\* f.write raises: the file keeps what it held or a part of the body
RaceWriteRaises(p) ==
    /\ c_pc[p] = "write"
    /\ \E left \in {disk[c_filename(p)], "partial"} :
          disk' = [disk EXCEPT ![c_filename(p)] = left]
    /\ c_pc' = [c_pc EXCEPT ![p] = "check"]
    /\ c_k' = [c_k EXCEPT ![p] = @ + 1]
    /\ c_body' = [c_body EXCEPT ![p] = "none"]
    /\ UNCHANGED <<c_ids, c_good, opens, early_hits>>
    /\ UNCHANGED otherThanRace

\* return good_filenames
RaceReturn(p) ==
    /\ c_pc[p] = "check"
    /\ c_k[p] > Len(c_ids[p])
    /\ c_pc' = [c_pc EXCEPT ![p] = "done"]
    /\ UNCHANGED <<c_ids, c_k, c_good, c_body, opens, early_hits, disk>>
    /\ UNCHANGED otherThanRace

(***************************************************************************)
(* Specifications                                                          *)
(***************************************************************************)
InitSplit == InitSplitVars /\ IdleBoolVars /\ IdleFetchVars /\ IdleRaceVars /\ IdleDisk
NextSplit ==
    \/ Permute
    \/ Balance
    \/ Remaining
    \/ AddFromRemaining
    \/ Redraw
    \/ RedrawEmptyRaises
    \/ RedrawEmptyReturns
    \/ Assign
SpecSplit == InitSplit /\ [][NextSplit]_vars

InitBool == IdleSplitVars /\ InitBoolVars /\ IdleFetchVars /\ IdleRaceVars /\ IdleDisk
NextBool ==
    \/ Filter
    \/ Expand
    \/ ReturnBoolDf
SpecBool == InitBool /\ [][NextBool]_vars

InitFetch == IdleSplitVars /\ IdleBoolVars /\ InitFetchVars /\ IdleRaceVars /\ InitDisk
NextFetch ==
    \/ CallUnknownDataset
    \/ CallWithFilenameColumn
    \/ CallWithUrlColumn
    \/ IterHit
    \/ IterFetchRaises
    \/ IterOpenRaises
    \/ IterWriteRaises
    \/ IterOk
    \/ Return
SpecFetch == InitFetch /\ [][NextFetch]_vars

InitRace == IdleSplitVars /\ IdleBoolVars /\ IdleFetchVars /\ InitRaceVars /\ InitRaceDisk
NextRace ==
    \E p \in Procs :
        \/ RaceHit(p)
        \/ RaceMiss(p)
        \/ RaceGet(p)
        \/ RaceGetRaises(p)
        \/ RaceOpen(p)
        \/ RaceOpenRaises(p)
        \/ RaceWrite(p)
        \/ RaceWriteRaises(p)
        \/ RaceReturn(p)
SpecRace == InitRace /\ [][NextRace]_vars

(***************************************************************************)
(* Claims about get_train_test_split (SpecSplit)                           *)
(***************************************************************************)
TestRows == {r \in DOMAIN split : split[r] = "test"}

\* C1: for every table with at least one column and one row, every test
\* fraction and seed, get_train_test_split returns without raising, and the
\* assignment returned has exactly the input row identifiers as keys, each
\* once, with values 'train' or 'test' only.
Claim_C1 ==
    /\ s_pc # "raised"
    /\ s_pc = "done" =>
          /\ DOMAIN split = Rows
          /\ \A r \in Rows : split[r] \in {"train", "test"}

\* C2: whenever the 'add from remaining' branch is taken (num_to_add > 0),
\* the number of identifiers assigned 'test' is round(test_frac * N).
Claim_C2 ==
    (s_pc = "done" /\ num_to_add > 0) => Cardinality(TestRows) = num_test

(***************************************************************************)
(* Claims about get_bool_df (SpecBool)                                     *)
(***************************************************************************)
TrueCount(name) == Cardinality(bool_df[name])

\* C3: with min_positive_examples <= 0 the result has one boolean column
\* per distinct non-missing value, and the column of each value has as many
\* true rows as the value occurs in the NA-dropped data.
Claim_C3 ==
    (b_pc = "done" /\ min_positive_examples <= 0) =>
        LET freqs == ValueCounts(df)
        IN  /\ Cardinality(DOMAIN bool_df) = Cardinality(DOMAIN freqs)
            /\ \A v \in DOMAIN freqs :
                  /\ AsciiName(column_name, v) \in DOMAIN bool_df
                  /\ TrueCount(AsciiName(column_name, v)) = freqs[v]

HasFilenameColumn ==
    /\ dataset_name \in DOMAIN DATASETS
    /\ "image_filename" \in DATASETS[dataset_name]

HasUrlColumn ==
    /\ dataset_name \in DOMAIN DATASETS
    /\ "image_filename" \notin DATASETS[dataset_name]
    /\ "image_url" \in DATASETS[dataset_name]

Failures == {"fetch_raised", "open_raised", "write_raised"}

\* The cache paths of the identifiers resolved so far, in input order.
ResolvedPaths ==
    LET pos == SelectSeq([j \in 1..Len(log) |-> j],
                         LAMBDA j : log[j] \in {"hit", "ok"})
    IN  [i \in 1..Len(pos) |-> CachePath(dataset_name, image_ids[pos[i]])]

\* C5: on a dataset with an image_filename column a call completes normally
\* and returns that column's paths, for the requested identifiers, that
\* exist on disk.
Claim_C5 ==
    (HasFilenameColumn /\ f_pc \in {"done", "raised"}) =>
        /\ f_pc = "done"
        /\ good_filenames =
              SelectSeq([j \in 1..Len(image_ids) |-> LocalPath(image_ids[j])],
                        LAMBDA f : disk[f] # "absent")

\* C6: on a dataset with a url column the call never ends by an error of a
\* fetch or a write: every identifier is gone through, and the result is, in
\* input order, exactly the cache paths of the identifiers whose file was
\* there or was fetched and written; it is no longer than the input and
\* every path in it exists on disk.
Thm_C6 ==
    HasUrlColumn =>
        /\ f_pc # "raised"
        /\ Len(log) = k - 1
        /\ f_pc = "done" => Len(log) = Len(image_ids)
        /\ good_filenames = ResolvedPaths
        /\ Len(good_filenames) <= Len(image_ids)
        /\ \A j \in DOMAIN good_filenames : disk[good_filenames[j]] # "absent"

\* A call has returned after an identifier failed and a later one resolved.
Wit_C6 ==
    /\ HasUrlColumn
    /\ f_pc = "done"
    /\ \E i, j \in DOMAIN log :
          i < j /\ log[i] \in Failures /\ log[j] \in {"hit", "ok"}
    /\ Len(good_filenames) < Len(image_ids)

\* C7: a cache file that exists is never deleted and never written again,
\* in any step of any call: it keeps the contents it has.
Thm_C7 ==
    [][\A f \in DOMAIN disk : disk[f] # "absent" => disk'[f] = disk[f]]_vars

\* A call has met, as a hit, a file that an earlier iteration or call of
\* this process left cut short (the files there at the start are whole).
Wit_C7 ==
    /\ f_pc = "done"
    /\ \E j \in DOMAIN log :
          /\ log[j] = "hit"
          /\ disk[CachePath(dataset_name, image_ids[j])] = "partial"

\* C8: when resolving an identifier fails (the fetch, the open or the write
\* raises) the cache has no file for the identifier afterwards.
Claim_C8 ==
    [][(/\ f_pc = "loop"
        /\ Len(log') = Len(log) + 1
        /\ log'[Len(log')] \in Failures)
       => disk'[filename] = "absent"]_vars

\* C9: an absent file whose fetch and write succeed holds the response body
\* afterwards and its path is appended to the result; an identifier whose
\* file exists is a hit: its path is appended, no request is made and the
\* cache is left as it is (so the file is there for every later call).
Thm_C9 ==
    [][(f_pc = "loop" /\ k' = k + 1) =>
          /\ log'[Len(log')] = "ok" =>
                /\ disk[filename] = "absent"
                /\ disk'[filename] \in Bodies
                /\ net' = Append(net, <<image_ids[k], disk'[filename]>>)
                /\ good_filenames' = Append(good_filenames, filename)
          /\ disk[filename] # "absent" =>
                /\ net' = net
                /\ disk' = disk
                /\ good_filenames' = Append(good_filenames, filename)]_vars

\* A later call has returned, without any request, the path of a file that
\* this process fetched (the files there at the start hold "v1").
Wit_C9 ==
    /\ f_pc = "done"
    /\ net = <<>>
    /\ \E j \in DOMAIN log :
          /\ log[j] = "hit"
          /\ disk[CachePath(dataset_name, image_ids[j])] = "v2"
          /\ good_filenames[j] = CachePath(dataset_name, image_ids[j])

(***************************************************************************)
(* Claim about concurrent fetch_image_filenames_for_ids (SpecRace)         *)
(***************************************************************************)
\* C10: the existence check and the write are separate steps with nothing
\* between them to keep other processes out.  Both interleavings of the
\* claim are reachable (Wit_C10); and the check is the only guard there is:
\* a process opens a path at most once, so a path opened twice was opened by
\* two processes that both found it absent, and a hit on a file another
\* process has not finished writing is a hit on a file that process opened.
Thm_C10 ==
    /\ \A p \in Procs, f \in CachePaths :
          /\ opens[p][f] <= 1
          /\ disk[f] = "absent" => opens[p][f] = 0
    /\ \A h \in early_hits :
          \E q \in Procs \ {h[1]} : opens[q][h[2]] >= 1

\* Two processes have both passed the check and both opened the same path,
\* and a process has returned that path as a hit while another process had
\* created the file and not finished writing it.
Wit_C10 ==
    \E f \in CachePaths :
        /\ \E p, q \in Procs : p # q /\ opens[p][f] >= 1 /\ opens[q][f] >= 1
        /\ \E p \in Procs : <<p, f>> \in early_hits /\ f \in Range(c_good[p])

====
